---- MODULE Spec2Model ----
(***************************************************************************)
(* Model of transcribe-vaam-video-with-gemini.ts: one CLI invocation, from *)
(* argument parsing to process exit.  Strings that the program inspects    *)
(* character by character (argv tokens) are sequences of one-character     *)
(* strings; optional values (string | null | undefined) are sequences of   *)
(* length 0 or 1.                                                          *)
(***************************************************************************)
EXTENDS Integers, Sequences, FiniteSets, TLC

VARIABLES
    args,          \* process.argv.slice(2)
    env,           \* process.env.GEMINI_API_KEY  (None = unset)
    pc,            \* where the invocation is
    verbose,       \* module global `verbose`
    tempFilePath,  \* module global `tempFilePath`
    files,         \* paths that exist under TEMP_DIR
    response,      \* what the lookup request came back with (None before it)
    videoUrl,      \* main's local `videoUrl`
    pending,       \* exception in flight (rejection of main's promise)
    trace,         \* everything observable, in order: stdout writes, fetches,
                   \* cleanup calls, unlinks
    exitCode,      \* status passed to process.exit (None while running)
    retry,         \* helpers.js: the frame of one retryWithBackoff call
    click          \* helpers.js: the frame of one safeClick call

vars == <<args, env, pc, verbose, tempFilePath, files, response, videoUrl,
          pending, trace, exitCode, retry, click>>

----------------------------------------------------------------------------
\* Bounds of the model

MaxArgs == 2     \* longest argv tail explored
MaxIdLen == 2    \* longest capture id explored
MaxRetriesArg == 3   \* largest retry count passed to the helpers

----------------------------------------------------------------------------
\* Optional values

None == <<>>
Some(x) == <<x>>

Range(s) == { s[i] : i \in DOMAIN s }

----------------------------------------------------------------------------
\* Configuration

\* "https://app.vaam.io/share/"
SharePrefix ==
    <<"h","t","t","p","s",":","/","/","a","p","p",".","v","a","a","m",".",
      "i","o","/","s","h","a","r","e","/">>

\* \w of a JavaScript regular expression without the u/i flags
WordChars ==
    {"a","b","c","d","e","f","g","h","i","j","k","l","m","n","o","p","q","r",
     "s","t","u","v","w","x","y","z",
     "A","B","C","D","E","F","G","H","I","J","K","L","M","N","O","P","Q","R",
     "S","T","U","V","W","X","Y","Z",
     "0","1","2","3","4","5","6","7","8","9","_"}

\* [\w-]
IdChars == WordChars \cup {"-"}

\* A mutated pattern: the trailing $ anchor is missing.
VAAM_URL_PATTERN_Unanchored(s) ==
    /\ Len(s) > Len(SharePrefix)
    /\ SubSeq(s, 1, Len(SharePrefix)) = SharePrefix
    /\ s[Len(SharePrefix) + 1] \in IdChars

\* /^https:\/\/app\.vaam\.io\/share\/([\w-]+)$/ .test(s)
VAAM_URL_PATTERN(s) ==
    /\ Len(s) > Len(SharePrefix)
    /\ SubSeq(s, 1, Len(SharePrefix)) = SharePrefix
    /\ \A i \in (Len(SharePrefix) + 1)..Len(s) : s[i] \in IdChars

TempFile == "vaam-<now>.mp4"

----------------------------------------------------------------------------
\* Utilities

ErrorCodes ==
    {"MISSING_ARGUMENT", "INVALID_URL", "MISSING_API_KEY",
     "VIDEO_EXTRACTION_FAILED", "VIDEO_DOWNLOAD_FAILED", "TRANSCRIPTION_FAILED"}

NoError ==
    [success |-> TRUE,
     error |-> [code |-> "", message |-> "", details |-> "", suggestion |-> ""]]

createError(code, message, details, suggestion) ==
    [success |-> FALSE,
     error |-> [code |-> code, message |-> message, details |-> details,
                suggestion |-> suggestion]]

\* One entry of the trace.  Written to standard output by console.log:
\* "log" (a progress line of log()), "error" (outputError), "text" (the
\* transcript), "help".  Other effects: "fetch", "cleanup", "unlink".
\* stage is the pipeline stage whose code produced the entry.
Entry(ev, val, obj, stage) == [ev |-> ev, val |-> val, obj |-> obj, stage |-> stage]

\* log(message): console.log only if verbose
log(v, message, stage) ==
    IF v THEN <<Entry("log", message, NoError, stage)>> ELSE <<>>

\* outputError(error): console.log(JSON.stringify(error))
outputError(error, stage) == <<Entry("error", error.error.code, error, stage)>>

\* A mutated exit-code table: MISSING_API_KEY grouped with the runtime errors.
getExitCode_KeyIsRuntime(code) ==
    CASE code \in {"MISSING_ARGUMENT", "INVALID_URL"} -> 1
      [] code \in {"MISSING_API_KEY", "VIDEO_EXTRACTION_FAILED",
                   "VIDEO_DOWNLOAD_FAILED", "TRANSCRIPTION_FAILED"} -> 2

getExitCode(code) ==
    CASE code \in {"MISSING_ARGUMENT", "INVALID_URL", "MISSING_API_KEY"} -> 1
      [] code \in {"VIDEO_EXTRACTION_FAILED", "VIDEO_DOWNLOAD_FAILED",
                   "TRANSCRIPTION_FAILED"} -> 2

----------------------------------------------------------------------------
\* Inputs: argv tokens

HelpLong == <<"-","-","h","e","l","p">>
HelpShort == <<"-","h">>
VerboseLong == <<"-","-","v","e","r","b","o","s","e">>
VerboseShort == <<"-","v">>

\* Characters capture ids are built from: one that [\w-] accepts, one it rejects
IdAlphabet == {"a", "?"}

RECURSIVE SeqsUpTo(_, _)
SeqsUpTo(S, n) ==
    IF n = 0 THEN {<<>>}
    ELSE LET shorter == SeqsUpTo(S, n - 1)
         IN  shorter \cup { Append(s, c) : s \in shorter, c \in S }

Tokens ==
    {HelpLong, HelpShort, VerboseLong, VerboseShort}
    \cup {<<>>, <<"-","x">>}
    \cup { SharePrefix \o id : id \in SeqsUpTo(IdAlphabet, MaxIdLen) }
    \cup { SharePrefix \o <<"A","-","9","_","z">>,
           SharePrefix \o <<"a","\n">>,
           <<" ">> \o SharePrefix \o <<"a">>,
           <<"h","t","t","p",":","/","/">> \o SubSeq(SharePrefix, 9, Len(SharePrefix)) \o <<"a">>,
           [SharePrefix EXCEPT ![12] = "x"] \o <<"a">> }

ArgLists == SeqsUpTo(Tokens, MaxArgs)

\* Values of GEMINI_API_KEY: unset, set to the empty string, set
ApiKeys == {None, Some(""), Some("AIza-key")}

----------------------------------------------------------------------------
\* Argument parsing (main, synchronous prefix)

startsWith(s, c) == Len(s) >= 1 /\ s[1] = c

helpFlag(a) == HelpLong \in Range(a) \/ HelpShort \in Range(a)

verboseFlag(a) == VerboseLong \in Range(a) \/ VerboseShort \in Range(a)

IsPositional(arg) == ~startsWith(arg, "-")

positionalArgs(a) == SelectSeq(a, IsPositional)

\* positionalArgs[0]: undefined (None) when there is no positional argument
vaamUrlOf(a) ==
    IF positionalArgs(a) = <<>> THEN None ELSE Some(positionalArgs(a)[1])

\* !vaamUrl : undefined or the empty string
Falsy(opt) == opt = None \/ opt[1] = <<>>

\* A mutated validation: the API key is never checked.
Validate_NoKeyCheck(a, e) ==
    IF helpFlag(a) THEN "help"
    ELSE IF Falsy(vaamUrlOf(a)) THEN "MISSING_ARGUMENT"
    ELSE IF ~VAAM_URL_PATTERN(vaamUrlOf(a)[1]) THEN "INVALID_URL"
    ELSE "ok"

\* The outcome of main's checks before the pipeline, in the code's order
Validate(a, e) ==
    IF helpFlag(a) THEN "help"
    ELSE IF Falsy(vaamUrlOf(a)) THEN "MISSING_ARGUMENT"
    ELSE IF ~VAAM_URL_PATTERN(vaamUrlOf(a)[1]) THEN "INVALID_URL"
    ELSE IF e = None \/ e = Some("") THEN "MISSING_API_KEY"
    ELSE "ok"

ValidationMessage(code) ==
    CASE code = "MISSING_ARGUMENT" -> "No Vaam URL provided"
      [] code = "INVALID_URL" -> "Invalid Vaam URL format"
      [] code = "MISSING_API_KEY" -> "GEMINI_API_KEY environment variable not set"

----------------------------------------------------------------------------
\* Cleanup

\* cleanup(): unlink tempFilePath if it is set; a failing unlink (the file
\* does not exist) is swallowed and the log line skipped.
cleanup(path, fs, v, stage) ==
    IF path # None /\ path[1] # ""
    THEN IF path[1] \in fs
         THEN [files |-> fs \ {path[1]},
               events |-> <<Entry("cleanup", "", NoError, stage),
                            Entry("unlink", path[1], NoError, stage)>>
                          \o log(v, "Cleaned up temporary file", stage)]
         ELSE [files |-> fs,
               events |-> <<Entry("cleanup", "", NoError, stage),
                            Entry("unlink", path[1], NoError, stage)>>]
    ELSE [files |-> fs, events |-> <<Entry("cleanup", "", NoError, stage)>>]

----------------------------------------------------------------------------
\* Vaam video extraction

extractCaptureId(vaamUrl) ==
    IF VAAM_URL_PATTERN(vaamUrl)
    THEN Some(SubSeq(vaamUrl, Len(SharePrefix) + 1, Len(vaamUrl)))
    ELSE None

MediaKeys == {"mp4", "webm", "hls"}

\* The URL the lookup gives for a format
MediaUrl(k) ==
    CASE k = "mp4" -> "https://cdn.example/v.mp4"
      [] k = "webm" -> "https://cdn.example/v.webm"
      [] k = "hls" -> "https://cdn.example/v.m3u8"

\* JSON objects with any subset of the three fields: each key is missing
\* (None), carries the empty string, or carries its URL
Payloads ==
    { o \in [MediaKeys -> {None, Some("")} \cup { Some(MediaUrl(k)) : k \in MediaKeys }] :
        \A k \in MediaKeys : o[k] \in {None, Some(""), Some(MediaUrl(k))} }

\* A parsed body without any of the three fields
NoFields == [k \in MediaKeys |-> None]

\* What the lookup request can come back with.
\*   net   "reject": fetch itself rejects (transport failure)
\*   ok    response.ok
\*   parse "error": response.json() rejects (empty or unparseable body)
\*         "falsy": body parses to null, false, 0 or ""
\*         "scalar": body parses to a truthy value without the three fields
\*         "object": body parses to obj
LookupResponse(net, ok, parse, obj) == [net |-> net, ok |-> ok, parse |-> parse, obj |-> obj]

LookupResponses ==
    {LookupResponse("reject", FALSE, "error", NoFields),
     LookupResponse("ok", FALSE, "error", NoFields),
     LookupResponse("ok", TRUE, "error", NoFields),
     LookupResponse("ok", TRUE, "falsy", NoFields),
     LookupResponse("ok", TRUE, "scalar", NoFields)}
    \cup { LookupResponse("ok", TRUE, "object", o) : o \in Payloads }

\* data.<key>: undefined (None) when the key is missing
Field(obj, key) == obj[key]

\* JavaScript truthiness of an optional string
Truthy(opt) == opt # None /\ opt[1] # ""

\* A mutated selection: WebM is preferred over MP4.
SelectMedia_WebmFirst(obj) ==
    IF Truthy(Field(obj, "webm")) THEN Field(obj, "webm")
    ELSE IF Truthy(Field(obj, "mp4")) THEN Field(obj, "mp4")
    ELSE IF Truthy(Field(obj, "hls")) THEN Field(obj, "hls")
    ELSE None

\* data.mp4 || data.webm || data.hls || null
SelectMedia(obj) ==
    IF Truthy(Field(obj, "mp4")) THEN Field(obj, "mp4")
    ELSE IF Truthy(Field(obj, "webm")) THEN Field(obj, "webm")
    ELSE IF Truthy(Field(obj, "hls")) THEN Field(obj, "hls")
    ELSE None

\* Result of an async function: it returns `value` or throws `err`; `events`
\* is what it did on the way.
Returned(events, value) == [throws |-> FALSE, value |-> value, err |-> "", events |-> events]
Thrown(events, err) == [throws |-> TRUE, value |-> None, err |-> err, events |-> events]

\* extractVideoUrl(vaamUrl) when the lookup answers resp
extractVideoUrl(vaamUrl, v, resp) ==
    IF extractCaptureId(vaamUrl) = None THEN Returned(<<>>, None)
    ELSE
      LET started == log(v, "Fetching video URL from Vaam API...", "resolve")
                     \o <<Entry("fetch", "lookup", NoError, "resolve")>>
      IN  IF resp.net = "reject" THEN Thrown(started, "fetch failed")
          ELSE IF ~resp.ok THEN Returned(started, None)
          ELSE IF resp.parse = "error" THEN Thrown(started, "JSON parse error")
          ELSE IF resp.parse = "falsy"
               THEN Returned(
                      started \o outputError(
                        createError("VIDEO_DOWNLOAD_FAILED",
                                    "Failed to extract video URL from Vaam API response",
                                    "", "Validate the link"),
                        "resolve"),
                      None)
          ELSE Returned(started, SelectMedia(resp.obj))

----------------------------------------------------------------------------
\* Video download

\* Where downloadVideo can fail
DownloadOutcomes ==
    {"mkdir_error", "fetch_reject", "http_error", "body_error",
     "write_error", "write_partial", "ok"}

\* downloadVideo(videoUrl) under outcome o: result and files on disk after it
downloadVideo(url, v, fs, o) ==
    LET started == log(v, "Downloading video to file...", "download")
                   \o <<Entry("fetch", "media", NoError, "download")>>
    IN  CASE o = "mkdir_error" ->
               [res |-> Thrown(<<>>, "mkdir failed"), files |-> fs]
          [] o = "fetch_reject" ->
               [res |-> Thrown(started, "fetch failed"), files |-> fs]
          [] o = "http_error" ->
               [res |-> Thrown(started, "HTTP 404: Not Found"), files |-> fs]
          [] o = "body_error" ->
               [res |-> Thrown(started, "body read failed"), files |-> fs]
          [] o = "write_error" ->
               [res |-> Thrown(started, "write failed"), files |-> fs]
          [] o = "write_partial" ->
               [res |-> Thrown(started, "write failed"), files |-> fs \cup {TempFile}]
          [] o = "ok" ->
               [res |-> Returned(started \o log(v, "Downloaded n MB", "download"),
                                 Some(TempFile)),
                files |-> fs \cup {TempFile}]

----------------------------------------------------------------------------
\* Gemini transcription

Transcripts == {"", "Hello from the video."}

TranscribeOutcomes == {"read_error", "api_error", "ok"}

\* transcribeVideo(videoPath, apiKey) under outcome o, the model answering text
transcribeVideo(path, v, fs, o, text) ==
    LET reading == log(v, "Reading video file...", "transcribe")
        sending == reading \o log(v, "Sending to Gemini for transcription...", "transcribe")
    IN  IF o = "read_error" \/ path \notin fs THEN Thrown(reading, "ENOENT")
        ELSE IF o = "api_error" THEN Thrown(sending, "API error")
        ELSE Returned(sending \o log(v, "Transcription complete", "transcribe"),
                      Some(text))

----------------------------------------------------------------------------
\* helpers.js: retryWithBackoff(fn, maxRetries = 3, initialDelay = 1000)

DefaultMaxRetries == 3
DefaultInitialDelay == 1000

\* A default parameter: the default replaces undefined (None) only
DefaultParam(arg, default) == IF arg = None THEN default ELSE arg[1]

\* Arguments a caller passes: none, or a number
RetryCounts == {None} \cup { Some(n) : n \in 0..MaxRetriesArg }
Delays == {None, Some(0), Some(1), Some(250), Some(500)}

\* One entry of a helper's history: "call" (fn invoked for the n-th time,
\* succeeding or failing with its own value or error, named by n), "wait"
\* (a timer of n ms awaited)
Did(ev, n, ok) == [ev |-> ev, n |-> n, ok |-> ok]

\* The frame when retryWithBackoff is entered.  pc "none": not called.
RetryFrame(pcv, maxRetries, initialDelay) ==
    [pc |-> pcv, maxRetries |-> maxRetries, initialDelay |-> initialDelay,
     i |-> 0, lastError |-> None, result |-> None, thrown |-> None, history |-> <<>>]

IdleRetry == RetryFrame("none", 0, 0)

\* A mutated backoff: the delay grows linearly.
BackoffDelay_Linear(initialDelay, i) == initialDelay * (i + 1)

\* initialDelay * Math.pow(2, i)
BackoffDelay(initialDelay, i) == initialDelay * 2^i

----------------------------------------------------------------------------
\* helpers.js: safeClick(page, selector, options = {})

DefaultClickRetries == 3
DefaultRetryDelay == 1000

\* options.x || default: undefined (None) and 0 are both falsy
OrDefault(arg, default) == IF arg = None \/ arg[1] = 0 THEN default ELSE arg[1]

\* The frame when safeClick is entered with options {retries, retryDelay}.
\* History entries: "waitForSelector" and "click" (of attempt n, succeeding
\* or throwing), "wait" (page.waitForTimeout of n ms)
ClickFrame(pcv, retries, retryDelay) ==
    [pc |-> pcv, options |-> [retries |-> retries, retryDelay |-> retryDelay],
     maxRetries |-> OrDefault(retries, DefaultClickRetries),
     retryDelay |-> OrDefault(retryDelay, DefaultRetryDelay),
     i |-> 0, result |-> None, thrown |-> None, history |-> <<>>]

IdleClick == ClickFrame("none", None, None)

\* What one attempt can do: waitForSelector throws, click throws, both succeed
ClickOutcomes == {"not_visible", "click_failed", "clicked"}

\* A mutated test of the last attempt, off by one.
IsLastAttempt_OffByOne(i, maxRetries) == i = maxRetries

\* i === maxRetries - 1
IsLastAttempt(i, maxRetries) == i = maxRetries - 1

----------------------------------------------------------------------------
\* The invocation

Init ==
    /\ args \in ArgLists
    /\ env \in ApiKeys
    /\ pc = "start"
    /\ verbose = FALSE
    /\ tempFilePath = None
    /\ files = {}
    /\ response = None
    /\ videoUrl = None
    /\ pending = None
    /\ trace = <<>>
    /\ exitCode = None
    /\ retry = IdleRetry
    /\ click = IdleClick

\* process.exit(code): the process ends here; no finally block, no promise
\* callback runs after it
Exit(code) ==
    /\ pc' = "exited"
    /\ exitCode' = Some(code)

\* main, up to the first await: flags, help, the three validations
Main ==
    /\ pc = "start"
    /\ LET r == Validate(args, env)
       IN  IF r = "help"
           THEN /\ trace' = trace \o <<Entry("help", "usage", NoError, "help")>>
                /\ Exit(0)
                /\ UNCHANGED verbose
           ELSE /\ verbose' = verboseFlag(args)
                /\ IF r \in ErrorCodes
                   THEN /\ trace' = trace \o outputError(
                                      createError(r, ValidationMessage(r),
                                                  "details", "suggestion"),
                                      "validate")
                        /\ Exit(getExitCode(r))
                   ELSE /\ trace' = trace \o log(verboseFlag(args),
                                                 "Processing Vaam URL", "validate")
                        /\ pc' = "resolve"
                        /\ UNCHANGED exitCode
    /\ UNCHANGED <<args, env, tempFilePath, files, response, videoUrl, pending>>
    /\ UNCHANGED <<retry, click>>

\* try { videoUrl = await extractVideoUrl(vaamUrl); if (!videoUrl) ... }
Resolve ==
    /\ pc = "resolve"
    /\ \E resp \in LookupResponses :
         LET r == extractVideoUrl(vaamUrlOf(args)[1], verbose, resp)
         IN  /\ response' = Some(resp)
             /\ IF r.throws
                THEN /\ trace' = trace \o r.events
                     /\ pending' = Some(r.err)
                     /\ pc' = "finally"
                     /\ UNCHANGED <<videoUrl, exitCode>>
                ELSE IF ~Truthy(r.value)
                THEN /\ trace' = trace \o r.events \o outputError(
                                   createError("VIDEO_EXTRACTION_FAILED",
                                               "Could not extract video URL from Vaam",
                                               "details", "suggestion"),
                                   "resolve")
                     /\ Exit(getExitCode("VIDEO_EXTRACTION_FAILED"))
                     /\ UNCHANGED <<videoUrl, pending>>
                ELSE /\ videoUrl' = r.value
                     /\ trace' = trace \o r.events \o log(verbose, "Video URL", "resolve")
                     /\ pc' = "download"
                     /\ UNCHANGED <<pending, exitCode>>
    /\ UNCHANGED <<args, env, verbose, tempFilePath, files>>
    /\ UNCHANGED <<retry, click>>

\* A mutated download step: the catch block reports the error but does not
\* exit, so the run goes on to the transcription.
Download_ContinuesAfterFailure ==
    /\ pc = "download"
    /\ \E o \in DownloadOutcomes :
         LET d == downloadVideo(videoUrl[1], verbose, files, o)
         IN  /\ files' = d.files
             /\ tempFilePath' = Some(TempFile)
             /\ pc' = "transcribe"
             /\ trace' = IF d.res.throws
                         THEN trace \o d.res.events \o outputError(
                                createError("VIDEO_DOWNLOAD_FAILED",
                                            "Failed to download video file",
                                            d.res.err, "suggestion"),
                                "download")
                         ELSE trace \o d.res.events
    /\ UNCHANGED <<args, env, verbose, response, videoUrl, pending, exitCode>>
    /\ UNCHANGED <<retry, click>>

\* try { tempFilePath = await downloadVideo(videoUrl) } catch { ... exit }
Download ==
    /\ pc = "download"
    /\ \E o \in DownloadOutcomes :
         LET d == downloadVideo(videoUrl[1], verbose, files, o)
         IN  /\ files' = d.files
             /\ IF d.res.throws
                THEN /\ trace' = trace \o d.res.events \o outputError(
                                   createError("VIDEO_DOWNLOAD_FAILED",
                                               "Failed to download video file",
                                               d.res.err, "suggestion"),
                                   "download")
                     /\ Exit(getExitCode("VIDEO_DOWNLOAD_FAILED"))
                     /\ UNCHANGED tempFilePath
                ELSE /\ tempFilePath' = d.res.value
                     /\ trace' = trace \o d.res.events
                     /\ pc' = "transcribe"
                     /\ UNCHANGED exitCode
    /\ UNCHANGED <<args, env, verbose, response, videoUrl, pending>>
    /\ UNCHANGED <<retry, click>>

\* try { transcription = await transcribeVideo(...) } catch { ... exit }
\* console.log(transcription); process.exit(0)
Transcribe ==
    /\ pc = "transcribe"
    /\ \E o \in TranscribeOutcomes, text \in Transcripts :
         LET r == transcribeVideo(tempFilePath[1], verbose, files, o, text)
         IN  IF r.throws
             THEN /\ trace' = trace \o r.events \o outputError(
                                createError("TRANSCRIPTION_FAILED",
                                            "Gemini API transcription error",
                                            r.err, "suggestion"),
                                "transcribe")
                  /\ Exit(getExitCode("TRANSCRIPTION_FAILED"))
             ELSE /\ trace' = trace \o r.events
                                    \o <<Entry("text", r.value[1], NoError, "transcribe")>>
                  /\ Exit(0)
    /\ UNCHANGED <<args, env, verbose, tempFilePath, files, response, videoUrl, pending>>
    /\ UNCHANGED <<retry, click>>

\* finally { await cleanup() }: reached when control leaves the try block
\* without process.exit, that is with an exception in flight
Finally ==
    /\ pc = "finally"
    /\ LET c == cleanup(tempFilePath, files, verbose, "finally")
       IN  /\ files' = c.files
           /\ trace' = trace \o c.events
    /\ IF pending # None
       THEN pc' = "catch" /\ UNCHANGED exitCode
       ELSE Exit(0)
    /\ UNCHANGED <<args, env, verbose, tempFilePath, response, videoUrl, pending>>
    /\ UNCHANGED <<retry, click>>

\* A mutated handler: it reports the error without calling cleanup.
TopLevelCatch_NoCleanup ==
    /\ pc = "catch"
    /\ trace' = trace \o outputError(
                  createError("TRANSCRIPTION_FAILED", "Unexpected error",
                              pending[1], "suggestion"),
                  "toplevel")
    /\ Exit(2)
    /\ UNCHANGED <<args, env, verbose, tempFilePath, files, response, videoUrl, pending>>
    /\ UNCHANGED <<retry, click>>

\* main().catch(async (err) => { await cleanup(); ...; process.exit(2) })
TopLevelCatch ==
    /\ pc = "catch"
    /\ LET c == cleanup(tempFilePath, files, verbose, "toplevel")
       IN  /\ files' = c.files
           /\ trace' = trace \o c.events \o outputError(
                         createError("TRANSCRIPTION_FAILED", "Unexpected error",
                                     pending[1], "suggestion"),
                         "toplevel")
    /\ Exit(2)
    /\ UNCHANGED <<args, env, verbose, tempFilePath, response, videoUrl, pending>>
    /\ UNCHANGED <<retry, click>>

Next ==
    \/ Main
    \/ Resolve
    \/ Download
    \/ Transcribe
    \/ Finally
    \/ TopLevelCatch

Spec == Init /\ [][Next]_vars

----------------------------------------------------------------------------
\* retryWithBackoff, one call of it

\* The command-line state while a helper of helpers.js is exercised alone
CliIdle ==
    /\ args = <<>>
    /\ env = None
    /\ pc = "start"
    /\ verbose = FALSE
    /\ tempFilePath = None
    /\ files = {}
    /\ response = None
    /\ videoUrl = None
    /\ pending = None
    /\ trace = <<>>
    /\ exitCode = None

CliVars == <<args, env, pc, verbose, tempFilePath, files, response, videoUrl,
             pending, trace, exitCode>>

InitRetry ==
    /\ CliIdle
    /\ click = IdleClick
    /\ \E m \in RetryCounts, d \in Delays :
         retry = RetryFrame("loop", DefaultParam(m, DefaultMaxRetries),
                            DefaultParam(d, DefaultInitialDelay))

CallsOf(h) == Cardinality({ k \in DOMAIN h : h[k].ev = "call" })

\* Loop body: try { return await fn() } catch (error) { lastError = error;
\* delay = ...; console.log(...); await new Promise(setTimeout) } up to the
\* suspension on the timer
RetryCall ==
    /\ retry.pc = "loop"
    /\ retry.i < retry.maxRetries
    /\ LET n == CallsOf(retry.history) + 1
       IN  \E ok \in BOOLEAN :
             IF ok
             THEN retry' = [retry EXCEPT !.pc = "returned",
                                         !.result = Some(n),
                                         !.history = Append(@, Did("call", n, TRUE))]
             ELSE retry' = [retry EXCEPT
                              !.pc = "sleeping",
                              !.lastError = Some(n),
                              !.history = @ \o <<Did("call", n, FALSE),
                                             Did("wait", BackoffDelay(retry.initialDelay, retry.i), FALSE)>>]
    /\ UNCHANGED <<CliVars, click>>

\* The timer fires: i++ and back to the loop condition
RetryTimeout ==
    /\ retry.pc = "sleeping"
    /\ retry' = [retry EXCEPT !.pc = "loop", !.i = @ + 1]
    /\ UNCHANGED <<CliVars, click>>

\* The loop condition fails: throw lastError
RetryThrow ==
    /\ retry.pc = "loop"
    /\ ~(retry.i < retry.maxRetries)
    /\ retry' = [retry EXCEPT !.pc = "thrown", !.thrown = retry.lastError]
    /\ UNCHANGED <<CliVars, click>>

NextRetry ==
    \/ RetryCall
    \/ RetryTimeout
    \/ RetryThrow

SpecRetry == InitRetry /\ [][NextRetry]_vars

----------------------------------------------------------------------------
\* safeClick, one call of it

InitClick ==
    /\ CliIdle
    /\ retry = IdleRetry
    /\ \E m \in RetryCounts, d \in Delays :
         click = ClickFrame(IF 0 < OrDefault(m, DefaultClickRetries)
                            THEN "loop" ELSE "fellthrough", m, d)

\* Loop body: try { waitForSelector; click; return true } catch (e) { if
\* (i === maxRetries - 1) throw e; console.log(...); waitForTimeout } up to
\* the suspension on the timer
ClickAttempt ==
    /\ click.pc = "loop"
    /\ click.i < click.maxRetries
    /\ LET n == click.i + 1
           failed(events) ==
               IF IsLastAttempt(click.i, click.maxRetries)
               THEN [click EXCEPT !.pc = "thrown", !.thrown = Some(n),
                                  !.history = @ \o events]
               ELSE [click EXCEPT !.pc = "sleeping",
                                  !.history = @ \o events
                                                \o <<Did("wait", click.retryDelay, FALSE)>>]
       IN  \E o \in ClickOutcomes :
             click' =
               CASE o = "not_visible" ->
                      failed(<<Did("waitForSelector", n, FALSE)>>)
                 [] o = "click_failed" ->
                      failed(<<Did("waitForSelector", n, TRUE), Did("click", n, FALSE)>>)
                 [] o = "clicked" ->
                      [click EXCEPT !.pc = "returned", !.result = Some(TRUE),
                                    !.history = @ \o <<Did("waitForSelector", n, TRUE),
                                                       Did("click", n, TRUE)>>]
    /\ UNCHANGED <<CliVars, retry>>

\* The timer fires: i++ and the loop condition; when it fails the function
\* ends without a value
ClickTimeout ==
    /\ click.pc = "sleeping"
    /\ click' = [click EXCEPT !.i = @ + 1,
                              !.pc = IF click.i + 1 < click.maxRetries
                                     THEN "loop" ELSE "fellthrough"]
    /\ UNCHANGED <<CliVars, retry>>

NextClick ==
    \/ ClickAttempt
    \/ ClickTimeout

SpecClick == InitClick /\ [][NextClick]_vars

----------------------------------------------------------------------------
\* Observations used by the properties

IsError(e) == e.ev = "error"
IsStdout(e) == e.ev \in {"log", "error", "text", "help"}
IsFetch(e) == e.ev = "fetch"

\* The error objects written, in order
Errors == SelectSeq(trace, IsError)

\* Everything written to standard output, in order
Stdout == SelectSeq(trace, IsStdout)

\* Network requests made
Fetches == SelectSeq(trace, IsFetch)

Exited == pc = "exited"

\* The run ended with exactly the error object `code` and exit status `status`
EndedWith(code, status) ==
    /\ Len(Errors) = 1
    /\ Errors[1].obj.success = FALSE
    /\ Errors[1].obj.error.code = code
    /\ exitCode = Some(status)

\* The last error object written has code `code`
FinalErrorIs(code) == Errors # <<>> /\ Errors[Len(Errors)].obj.error.code = code

\* s is https://app.vaam.io/share/ followed by a non-empty run of letters,
\* digits, underscores and hyphens, and nothing else
IsShareUrl(s) ==
    \E n \in 1..Len(s) :
        /\ Len(s) = Len(SharePrefix) + n
        /\ s = SharePrefix \o SubSeq(s, Len(SharePrefix) + 1, Len(s))
        /\ Range(SubSeq(s, Len(SharePrefix) + 1, Len(s))) \subseteq WordChars \cup {"-"}

\* A positional argument was given and no help flag
GivenUrlArgument == ~helpFlag(args) /\ positionalArgs(args) # <<>>

UrlArgument == positionalArgs(args)[1]

----------------------------------------------------------------------------
\* C1 (as claimed): when the process has exited, on whatever path, the
\* temporary file of the download stage is not on the filesystem.
TempFileAbsentAfterExit == Exited => TempFile \notin files

----------------------------------------------------------------------------
\* C2 (as claimed): with GEMINI_API_KEY unset, a run given a positional
\* argument ends with MISSING_API_KEY and exit 1, whether or not the argument
\* is a valid share URL.
MissingKeyRegardlessOfUrl ==
    (Exited /\ env = None /\ GivenUrlArgument /\ UrlArgument # <<>>)
        => EndedWith("MISSING_API_KEY", 1)

\* C2 (amended): with GEMINI_API_KEY unset and no help flag, a run whose
\* first positional argument is a valid share URL ends with MISSING_API_KEY
\* and exit 1; the URL is checked first, so a non-empty argument that is not
\* a valid share URL ends with INVALID_URL and exit 1 instead.
MissingKeyAfterUrlCheck ==
    (Exited /\ env = None /\ GivenUrlArgument /\ UrlArgument # <<>>)
        => /\ IsShareUrl(UrlArgument) => EndedWith("MISSING_API_KEY", 1)
           /\ ~IsShareUrl(UrlArgument) => EndedWith("INVALID_URL", 1)
           /\ Fetches = <<>>

\* C2 witness: a run with a valid share URL and no key has ended with
\* MISSING_API_KEY.
MissingKeyReported ==
    /\ Exited /\ env = None /\ GivenUrlArgument
    /\ IsShareUrl(UrlArgument)
    /\ EndedWith("MISSING_API_KEY", 1)

----------------------------------------------------------------------------
\* C3 (as claimed): any argument string that does not match the share URL
\* pattern ends the run with INVALID_URL and exit 1, without a network
\* request.
NonMatchingAlwaysInvalidUrl ==
    (Exited /\ GivenUrlArgument /\ ~IsShareUrl(UrlArgument))
        => EndedWith("INVALID_URL", 1) /\ Fetches = <<>>

\* C3 (amended): without a help flag, any non-empty first positional
\* argument that does not match the share URL pattern ends the run with
\* INVALID_URL and exit 1, without a network request; the empty string ends
\* it with MISSING_ARGUMENT and exit 1.
NonEmptyNonMatchingIsInvalidUrl ==
    (Exited /\ GivenUrlArgument /\ ~IsShareUrl(UrlArgument))
        => /\ Fetches = <<>>
           /\ UrlArgument # <<>> => EndedWith("INVALID_URL", 1)
           /\ UrlArgument = <<>> => EndedWith("MISSING_ARGUMENT", 1)

\* C3 witness: a run given a share URL with a character outside [\w-] in
\* its id has ended with INVALID_URL.
InvalidUrlReported ==
    /\ Exited /\ GivenUrlArgument
    /\ UrlArgument = SharePrefix \o <<"a", "?">>
    /\ EndedWith("INVALID_URL", 1)
    /\ Fetches = <<>>

----------------------------------------------------------------------------
\* The ways the resolver stage fails: the request fails at transport level,
\* the status is not a success, the body is empty or unparseable, or the
\* payload has none of the three fields
ResolverFailed(r) ==
    \/ r.net = "reject"
    \/ ~r.ok
    \/ r.parse = "error"
    \/ \A k \in MediaKeys : r.obj[k] = None

\* C4 (as claimed): a run whose resolver stage failed, in any of its ways,
\* ends with VIDEO_EXTRACTION_FAILED as its final error and exit 2.
ResolverFailureIsExtractionFailed ==
    (Exited /\ response # None /\ ResolverFailed(response[1]))
        => FinalErrorIs("VIDEO_EXTRACTION_FAILED") /\ exitCode = Some(2)

----------------------------------------------------------------------------
\* The lookup answered with a success status and a parsed body
ResolverAnswered == response # None /\ response[1].ok /\ response[1].parse # "error"

\* C5 (as claimed): after a successful lookup the selected URL is the mp4
\* value if the field is present, else webm if present, else hls if
\* present, and there is no URL only when all three are absent.
FirstPresentFieldSelected ==
    ResolverAnswered =>
        LET o == response[1].obj
            has(k) == o[k] # None
        IN  /\ has("mp4") => videoUrl = o["mp4"]
            /\ (~has("mp4") /\ has("webm")) => videoUrl = o["webm"]
            /\ (~has("mp4") /\ ~has("webm") /\ has("hls")) => videoUrl = o["hls"]
            /\ videoUrl = None <=> \A k \in MediaKeys : ~has(k)

\* C5 (amended): after a successful lookup the selected URL is the mp4
\* value if the field is present and not empty, else webm if present and
\* not empty, else hls if present and not empty, and there is no URL only
\* when each of the three is absent or empty.
FirstNonEmptyFieldSelected ==
    ResolverAnswered =>
        LET o == response[1].obj
            has(k) == o[k] # None /\ o[k] # Some("")
        IN  /\ has("mp4") => videoUrl = o["mp4"]
            /\ (~has("mp4") /\ has("webm")) => videoUrl = o["webm"]
            /\ (~has("mp4") /\ ~has("webm") /\ has("hls")) => videoUrl = o["hls"]
            /\ videoUrl = None <=> \A k \in MediaKeys : ~has(k)

\* C5 witness: the lookup answered with only an hls field and its value was
\* selected.
HlsOnlySelected ==
    /\ ResolverAnswered
    /\ response[1].obj["mp4"] = None
    /\ response[1].obj["webm"] = None
    /\ response[1].obj["hls"] = Some(MediaUrl("hls"))
    /\ videoUrl = Some(MediaUrl("hls"))
    /\ pc = "download"

----------------------------------------------------------------------------
\* C6 (as claimed): a run that exits with a non-zero status has written
\* exactly one error object, of shape {success: false, error: {code, ...}}.
ExactlyOneErrorObject ==
    (Exited /\ exitCode # Some(0))
        => /\ Len(Errors) = 1
           /\ Errors[1].obj.success = FALSE
           /\ Errors[1].obj.error.code \in ErrorCodes

----------------------------------------------------------------------------
\* Every stage succeeded: the transcript was printed
Succeeded == Exited /\ \E i \in DOMAIN trace : trace[i].ev = "text"

\* C7 (as claimed): on a successful run standard output holds the transcript
\* and nothing else, and the exit status is 0, with or without --verbose.
SuccessPrintsTranscriptOnly ==
    Succeeded => /\ Len(Stdout) = 1
                 /\ Stdout[1].ev = "text"
                 /\ exitCode = Some(0)

----------------------------------------------------------------------------
\* C8 (as claimed): every error object carries the code of the stage that
\* wrote it: VIDEO_EXTRACTION_FAILED only from the resolver,
\* VIDEO_DOWNLOAD_FAILED only from the download, TRANSCRIPTION_FAILED only
\* from the transcription or the handler of unanticipated errors.
ErrorCodeNamesFailedStage ==
    \A i \in DOMAIN Errors :
        LET code == Errors[i].obj.error.code
            stage == Errors[i].stage
        IN  /\ code = "VIDEO_EXTRACTION_FAILED" <=> stage = "resolve"
            /\ code = "VIDEO_DOWNLOAD_FAILED" <=> stage = "download"
            /\ code = "TRANSCRIPTION_FAILED" <=> stage \in {"transcribe", "toplevel"}

----------------------------------------------------------------------------
\* C9: the exit status is 1 when the final error is MISSING_ARGUMENT,
\* INVALID_URL or MISSING_API_KEY, 2 when it is VIDEO_EXTRACTION_FAILED,
\* VIDEO_DOWNLOAD_FAILED or TRANSCRIPTION_FAILED, and 0 exactly when no error
\* was written, which happens only after the help text or the transcript.
ExitStatusFollowsErrorCode ==
    Exited =>
        /\ exitCode \in {Some(0), Some(1), Some(2)}
        /\ Errors # <<>> =>
              LET code == Errors[Len(Errors)].obj.error.code
              IN  /\ code \in ErrorCodes
                  /\ code \in {"MISSING_ARGUMENT", "INVALID_URL", "MISSING_API_KEY"}
                        => exitCode = Some(1)
                  /\ code \in {"VIDEO_EXTRACTION_FAILED", "VIDEO_DOWNLOAD_FAILED",
                               "TRANSCRIPTION_FAILED"}
                        => exitCode = Some(2)
        /\ exitCode = Some(0) <=> Errors = <<>>
        /\ exitCode = Some(0) =>
              \E i \in DOMAIN trace : trace[i].ev \in {"help", "text"}

\* C9 witness: a run without the API key has exited with status 1, its final
\* error being MISSING_API_KEY.
ValidationErrorExitsOne ==
    Exited /\ FinalErrorIs("MISSING_API_KEY") /\ exitCode = Some(1)

----------------------------------------------------------------------------
\* C10: an exception that escaped the pipeline is handled at top level:
\* once the process has exited, the handler has called cleanup, then written
\* a TRANSCRIPTION_FAILED error object as the last output, and the exit
\* status is 2; until then the exception is on its way to the handler.
EscapedExceptionHandledAtTopLevel ==
    pending # None =>
        /\ pc \in {"finally", "catch", "exited"}
        /\ Exited =>
              /\ exitCode = Some(2)
              /\ trace[Len(trace)].ev = "error"
              /\ trace[Len(trace)].stage = "toplevel"
              /\ trace[Len(trace)].obj.error.code = "TRANSCRIPTION_FAILED"
              /\ \E i \in 1..(Len(trace) - 1) :
                    /\ trace[i].ev = "cleanup"
                    /\ trace[i].stage = "toplevel"
                    /\ \A j \in 1..i : ~(trace[j].ev = "error" /\ trace[j].stage = "toplevel")

\* C10 witness: the lookup request was rejected and the run has exited
\* through the top-level handler.
UnexpectedErrorReported ==
    /\ Exited /\ pending # None
    /\ response # None /\ response[1].net = "reject"
    /\ FinalErrorIs("TRANSCRIPTION_FAILED")
    /\ exitCode = Some(2)

----------------------------------------------------------------------------
\* Position of a stage in the pipeline (0: not a pipeline stage)
StageRank(stage) ==
    CASE stage = "validate" -> 1
      [] stage = "resolve" -> 2
      [] stage = "download" -> 3
      [] stage = "transcribe" -> 4
      [] OTHER -> 0

\* The trace entries written by pipeline stages, in order
IsOfPipeline(e) == StageRank(e.stage) > 0
PipelineEntries == SelectSeq(trace, IsOfPipeline)

FetchedBefore(what, n) ==
    \E i \in 1..(n - 1) : trace[i].ev = "fetch" /\ trace[i].val = what

\* C11: the stages act in the order validate, resolve, download, transcribe,
\* each starting only after the previous one succeeded; after a stage has
\* failed (an error object or an exception) no later stage acts; the
\* transcript is printed only after every stage succeeded, as the last
\* output, and never in a run that wrote an error object.
StagesInOrderAllOrNothing ==
    /\ LET pe == PipelineEntries
       IN  \A i \in DOMAIN pe :
              \A j \in (i + 1)..Len(pe) :
                 /\ StageRank(pe[i].stage) <= StageRank(pe[j].stage)
                 /\ pe[i].ev = "error" => pe[j].stage = pe[i].stage
    /\ pc \in {"resolve", "download", "transcribe"} => Errors = <<>> /\ pending = None
    /\ pc \in {"finally", "catch"} => pending # None
    /\ pending # None =>
          \A i \in DOMAIN trace : trace[i].stage \notin {"download", "transcribe"}
    /\ pc = "resolve" =>
          /\ GivenUrlArgument /\ IsShareUrl(UrlArgument)
          /\ env \notin {None, Some("")}
          /\ Fetches = <<>>
    /\ pc = "download" =>
          /\ videoUrl # None
          /\ Len(Fetches) = 1 /\ Fetches[1].val = "lookup"
    /\ pc = "transcribe" =>
          /\ tempFilePath = Some(TempFile) /\ TempFile \in files
          /\ Len(Fetches) = 2 /\ Fetches[2].val = "media"
    /\ \A n \in DOMAIN trace :
          trace[n].ev = "text" =>
              /\ n = Len(trace)
              /\ Errors = <<>> /\ pending = None
              /\ FetchedBefore("lookup", n) /\ FetchedBefore("media", n)
              /\ videoUrl # None /\ tempFilePath # None
              /\ exitCode = Some(0)

\* C11 witness: a verbose run whose download failed has exited: the resolver
\* acted before the download, the transcription never acted, and no
\* transcript was printed.
DownloadFailureStopsPipeline ==
    /\ Exited /\ verbose
    /\ FinalErrorIs("VIDEO_DOWNLOAD_FAILED")
    /\ Len(Fetches) = 2
    /\ \A i \in DOMAIN trace : trace[i].stage # "transcribe" /\ trace[i].ev # "text"

----------------------------------------------------------------------------
CleanupCalls == Cardinality({ i \in DOMAIN trace : trace[i].ev = "cleanup" })

\* The run passed the validations and entered the try block
EnteredPipeline == Fetches # <<>>

\* C12 (as claimed): a run that entered the pipeline and ended in success or
\* a handled error has called cleanup exactly once; a run that ended in the
\* top-level handler has called it twice.
CleanupOncePerPipelineRun ==
    (Exited /\ EnteredPipeline)
        => CleanupCalls = (IF pending # None THEN 2 ELSE 1)

----------------------------------------------------------------------------
\* C13: retryWithBackoff invokes fn at most maxRetries times; a successful
\* invocation is the last thing it does and its value is returned; the i-th
\* (0-based) failed invocation is followed by a wait of initialDelay * 2^i;
\* it throws only after maxRetries failed invocations, and then the error of
\* the last one (with maxRetries = 0 nothing was invoked and it throws
\* undefined).
RetryWithBackoffContract ==
    LET h == retry.history
        IsCall(k) == h[k].ev = "call"
    IN  /\ CallsOf(h) <= retry.maxRetries
        /\ \A k \in DOMAIN h :
              (IsCall(k) /\ h[k].ok) =>
                  /\ k = Len(h)
                  /\ retry.pc = "returned"
                  /\ retry.result = Some(h[k].n)
        /\ \A k \in DOMAIN h :
              (IsCall(k) /\ ~h[k].ok) =>
                  /\ k < Len(h)
                  /\ h[k + 1].ev = "wait"
                  /\ h[k + 1].n = retry.initialDelay * 2^(h[k].n - 1)
        /\ \A k \in DOMAIN h :
              h[k].ev = "wait" => k > 1 /\ IsCall(k - 1) /\ ~h[k - 1].ok
        /\ \A k \in DOMAIN h :
              IsCall(k) => h[k].n = CallsOf(SubSeq(h, 1, k))
        /\ retry.pc = "returned" => h # <<>> /\ IsCall(Len(h)) /\ h[Len(h)].ok
        /\ retry.pc = "thrown" =>
              /\ CallsOf(h) = retry.maxRetries
              /\ \A k \in DOMAIN h : IsCall(k) => ~h[k].ok
              /\ retry.thrown = IF retry.maxRetries = 0 THEN None
                                ELSE Some(retry.maxRetries)

\* C13 witness: three invocations failed, the waits were 250, 500 and 1000
\* ms, and the error of the third was thrown.
RetryGaveUpAfterBackoff ==
    /\ retry.pc = "thrown"
    /\ retry.thrown = Some(3)
    /\ retry.history = <<Did("call", 1, FALSE), Did("wait", 250, FALSE),
                         Did("call", 2, FALSE), Did("wait", 500, FALSE),
                         Did("call", 3, FALSE), Did("wait", 1000, FALSE)>>

----------------------------------------------------------------------------
\* C14: safeClick makes at most maxRetries attempts (options.retries, or 3
\* when it is not given or 0); an attempt waits for the selector and clicks
\* only once it is visible; a successful click is the last thing it does and
\* it returns true; a failed attempt other than the last is followed by one
\* wait of retryDelay and then the next attempt; the failure of attempt
\* maxRetries is thrown at once, without a wait.
SafeClickContract ==
    LET h == click.history
        Attempts == { h[k].n : k \in { j \in DOMAIN h : h[j].ev = "waitForSelector" } }
        Fails(k) == h[k].ev \in {"waitForSelector", "click"} /\ ~h[k].ok
    IN  /\ click.maxRetries =
              (IF click.options.retries \in {None, Some(0)}
               THEN 3 ELSE click.options.retries[1])
        /\ Attempts = 1..Cardinality(Attempts)
        /\ Cardinality(Attempts) <= click.maxRetries
        /\ \A k \in DOMAIN h :
              h[k].ev = "click" =>
                  /\ k > 1
                  /\ h[k - 1] = Did("waitForSelector", h[k].n, TRUE)
        /\ \A k \in DOMAIN h :
              (h[k].ev = "waitForSelector" /\ h[k].ok) =>
                  /\ k < Len(h)
                  /\ h[k + 1].ev = "click" /\ h[k + 1].n = h[k].n
        /\ \A k \in DOMAIN h :
              (h[k].ev = "click" /\ h[k].ok) =>
                  k = Len(h) /\ click.pc = "returned" /\ click.result = Some(TRUE)
        /\ click.pc = "returned" => h # <<>> /\ h[Len(h)].ev = "click" /\ h[Len(h)].ok
        /\ \A k \in DOMAIN h :
              (Fails(k) /\ h[k].n < click.maxRetries) =>
                  /\ k < Len(h)
                  /\ h[k + 1] = Did("wait", click.retryDelay, FALSE)
                  /\ k + 1 < Len(h) => h[k + 2] \in
                        { Did("waitForSelector", h[k].n + 1, ok) : ok \in BOOLEAN }
        /\ \A k \in DOMAIN h :
              (Fails(k) /\ h[k].n = click.maxRetries) =>
                  /\ k = Len(h)
                  /\ click.pc = "thrown"
                  /\ click.thrown = Some(h[k].n)
        /\ \A k \in DOMAIN h : h[k].ev = "wait" => k > 1 /\ Fails(k - 1)
        /\ click.pc = "thrown" =>
              /\ Cardinality(Attempts) = click.maxRetries
              /\ h # <<>> /\ Fails(Len(h))
        /\ click.pc \in {"loop", "sleeping", "returned", "thrown"}

\* C14 witness: with retries 2 and retryDelay 250 the first attempt did not
\* find the selector, 250 ms were waited, the click of the second attempt
\* failed and its error was thrown at once.
SafeClickGaveUp ==
    /\ click.pc = "thrown"
    /\ click.options = [retries |-> Some(2), retryDelay |-> Some(250)]
    /\ click.thrown = Some(2)
    /\ click.history = <<Did("waitForSelector", 1, FALSE), Did("wait", 250, FALSE),
                         Did("waitForSelector", 2, TRUE), Did("click", 2, FALSE)>>

====
